---- MODULE Spec2Model ----
(***************************************************************************)
(* Raw strided array views of ndarray (src/ndarray/src/impl_raw_views.rs): *)
(* RawArrayView / RawArrayViewMut descriptors {ptr, dim, strides} and the  *)
(* operations from_shape_ptr, split_at, cast, split_complex,               *)
(* into_raw_view and deref_into_view(_mut).                                *)
(*                                                                         *)
(* Machine integers keep their width: usize is 0..USIZE-1, isize is the    *)
(* two's-complement reading of the same bits.  Pointers are addresses of   *)
(* that width.  One allocation [AllocLo, AllocLo+AllocLen) exists; every   *)
(* other address is outside any allocation.                                *)
(***************************************************************************)
EXTENDS Integers, Sequences, FiniteSets, TLC

VARIABLES debug, cur, last

vars == <<debug, cur, last>>

-----------------------------------------------------------------------------
(* Bounds of the model *)

WordBits == 5
MaxExtent == 2
MaxStride == 1
MaxElemSize == 2
AllocLo == 8
AllocLen == 16

-----------------------------------------------------------------------------
(* Machine words *)

RECURSIVE Pow2(_)
Pow2(n) == IF n = 0 THEN 1 ELSE 2 * Pow2(n - 1)

USIZE == Pow2(WordBits)
ISIZE_MAX == Pow2(WordBits - 1) - 1
ISIZE_MIN == 0 - Pow2(WordBits - 1)

\* `x as isize` of a usize, and `x as usize` of an isize
AsIsize(u) == IF u > ISIZE_MAX THEN u - USIZE ELSE u
AsUsize(i) == i % USIZE

FitsIsize(i) == ISIZE_MIN <= i /\ i <= ISIZE_MAX

AllocHi == AllocLo + AllocLen
InAlloc(a) == AllocLo <= a /\ a <= AllocHi

-----------------------------------------------------------------------------
(* Element types: a scalar T of csize bytes, or Complex<T> = {re: T, im: T} *)

AlignOfSize(s) == IF s > 0 /\ s % 2 = 0 THEN 2 ELSE 1

Scalar(s) == [complex |-> FALSE, csize |-> s, align |-> AlignOfSize(s)]
ComplexOf(T) == [complex |-> TRUE, csize |-> T.csize, align |-> T.align]
Component(ty) == [complex |-> FALSE, csize |-> ty.csize, align |-> ty.align]

size_of(ty) == IF ty.complex THEN 2 * ty.csize ELSE ty.csize
align_of(ty) == ty.align

Scalars == {Scalar(s) : s \in 0..MaxElemSize}
ElemTypes == Scalars \cup {ComplexOf(T) : T \in Scalars}

-----------------------------------------------------------------------------
(* Descriptors *)

\* the ranks of the Dimension types D is instantiated at: Ix1 and Ix2
Ranks == {1, 2}

NoView == [kind |-> "None", ptr |-> 0, dim |-> <<>>, strides |-> <<>>,
           elem |-> Scalar(0)]

View(kind, ptr, dim, strides, elem) ==
    [kind |-> kind, ptr |-> ptr, dim |-> dim, strides |-> strides, elem |-> elem]

ndim(v) == Len(v.dim)
Axes(v) == 1..Len(v.dim)


-----------------------------------------------------------------------------
(* Dimension helpers used by the views *)

\* Dimension::axis / ArrayBase::len_of: dim[axis], a bounds-checked index
AxisExists(v, axis) == 0 <= axis /\ axis < Len(v.dim)
len_of(v, axis) == v.dim[axis + 1]

\* Dimension::set_axis
set_axis(d, axis, x) == [d EXCEPT ![axis + 1] = x]

\* Dimension::size: the product of the axis lengths, in usize
RECURSIVE SeqProduct(_)
SeqProduct(s) == IF s = <<>> THEN 1 ELSE Head(s) * SeqProduct(Tail(s))

size(d) == SeqProduct(d) % USIZE

\* ArrayBase::is_empty
is_empty(v) == size(v.dim) = 0

\* dimension::stride_offset: (n as isize) * (stride as Ixs), before any wrap
stride_offset(n, stride) == AsIsize(n) * AsIsize(stride)

\* isize arithmetic of the build: overflow panics with debug assertions
\* (overflow checks), wraps without them
Overflows(i) == ~FitsIsize(i)
Wrap(i) == AsIsize(AsUsize(i))

-----------------------------------------------------------------------------
(* Pointers *)

\* <*mut T>::offset(count) on elements of `sz` bytes.  Defined when no byte
\* is moved, or when both ends lie in (or one past) the allocation and the
\* byte count fits isize; otherwise undefined behaviour: any address.
OffsetDefined(ptr, count, sz) ==
    \/ count * sz = 0
    \/ /\ FitsIsize(count * sz)
       /\ InAlloc(ptr)
       /\ InAlloc(ptr + count * sz)

ptr_offset(ptr, count, sz) ==
    IF OffsetDefined(ptr, count, sz)
    THEN {(ptr + count * sz) % USIZE}
    ELSE 0..(USIZE - 1)

\* nonnull_debug_checked_from_ptr: debug_assert!(!ptr.is_null())
NonNullChecked(ptr, dbg) == ~(dbg /\ ptr = 0)

-----------------------------------------------------------------------------
(* Outcomes of an operation: a panic, or the views it returns *)

Panic == [status |-> "panic", out |-> <<>>]
Ok(views) == [status |-> "ok", out |-> views]

-----------------------------------------------------------------------------
(* RawArrayView::split_at *)

\* split_at_right_ptr without the `index == len_of(axis)` case
split_at_right_ptr_always_offsets(v, axis, index, dbg) ==
    LET offset == stride_offset(index, v.strides[axis + 1])
    IN  IF Overflows(offset) /\ dbg
        THEN {[panic |-> TRUE, ptr |-> 0]}
        ELSE {[panic |-> FALSE, ptr |-> p] :
                 p \in ptr_offset(v.ptr, Wrap(offset), size_of(v.elem))}

\* split_at_right_ptr offsetting by the index, not by index * stride
split_at_right_ptr_ignores_stride(v, axis, index, dbg) ==
    IF index = len_of(v, axis)
    THEN {[panic |-> FALSE, ptr |-> v.ptr]}
    ELSE {[panic |-> FALSE, ptr |-> p] :
             p \in ptr_offset(v.ptr, AsIsize(index), size_of(v.elem))}

\* lines 112-118: the right half's pointer; "panic" is the overflow check of
\* the multiplication in stride_offset
split_at_right_ptr(v, axis, index, dbg) ==
    IF index = len_of(v, axis)
    THEN {[panic |-> FALSE, ptr |-> v.ptr]}
    ELSE LET offset == stride_offset(index, v.strides[axis + 1])
         IN  IF Overflows(offset) /\ dbg
             THEN {[panic |-> TRUE, ptr |-> 0]}
             ELSE {[panic |-> FALSE, ptr |-> p] :
                      p \in ptr_offset(v.ptr, Wrap(offset), size_of(v.elem))}

\* split_at_left without `dim_left.set_axis(axis, index)`
split_at_left_keeps_len(v, axis, index) ==
    View(v.kind, v.ptr, v.dim, v.strides, v.elem)

\* lines 120-122
split_at_left(v, axis, index) ==
    View(v.kind, v.ptr, set_axis(v.dim, axis, index), v.strides, v.elem)

\* split_at_right without `dim_right.set_axis(axis, right_len)`
split_at_right_keeps_len(v, axis, index, right_ptr) ==
    View(v.kind, right_ptr, v.dim, v.strides, v.elem)

\* lines 124-127
split_at_right(v, axis, index, right_ptr) ==
    LET right_len == len_of(v, axis) - index
    IN  View(v.kind, right_ptr, set_axis(v.dim, axis, right_len), v.strides, v.elem)

\* split_at with `debug_assert!(index <= self.len_of(axis))`
split_at_debug_assert(v, axis, index, dbg) ==
    IF ~AxisExists(v, axis) THEN {Panic}
    ELSE IF dbg /\ ~(index <= len_of(v, axis)) THEN {Panic}
    ELSE { IF rp.panic \/ ~NonNullChecked(v.ptr, dbg) \/ ~NonNullChecked(rp.ptr, dbg)
           THEN Panic
           ELSE Ok(<<split_at_left(v, axis, index),
                     split_at_right(v, axis, index, rp.ptr)>>) :
             rp \in split_at_right_ptr(v, axis, index, dbg) }

\* lines 109-130
split_at(v, axis, index, dbg) ==
    IF ~AxisExists(v, axis) THEN {Panic}
    ELSE IF ~(index <= len_of(v, axis)) THEN {Panic}
    ELSE { IF rp.panic \/ ~NonNullChecked(v.ptr, dbg) \/ ~NonNullChecked(rp.ptr, dbg)
           THEN Panic
           ELSE Ok(<<split_at_left(v, axis, index),
                     split_at_right(v, axis, index, rp.ptr)>>) :
             rp \in split_at_right_ptr(v, axis, index, dbg) }

-----------------------------------------------------------------------------
(* RawArrayView::cast *)

\* cast handing `new` the strides and the dimension in each other's place
cast_swaps_dim_strides(v, B) ==
    IF size_of(B) # size_of(v.elem)
    THEN {Panic}
    ELSE {Ok(<<View(v.kind, v.ptr, v.strides, v.dim, B)>>)}

\* lines 142-150
cast(v, B) ==
    IF size_of(B) # size_of(v.elem)
    THEN {Panic}
    ELSE {Ok(<<View(v.kind, v.ptr, v.dim, v.strides, B)>>)}

-----------------------------------------------------------------------------
(* RawArrayView::split_complex *)

\* double_stride without the `dim[ax] > 1` test
double_stride_every_axis(d, s, T, dbg) ==
    IF size_of(T) # 0
    THEN LET p == AsIsize(s) * 2
         IN  [panic |-> Overflows(p) /\ dbg, stride |-> AsUsize(p)]
    ELSE [panic |-> FALSE, stride |-> s]

\* double_stride without the `mem::size_of::<T>() != 0` test
double_stride_zero_sized_too(d, s, T, dbg) ==
    IF d > 1
    THEN LET p == AsIsize(s) * 2
         IN  [panic |-> Overflows(p) /\ dbg, stride |-> AsUsize(p)]
    ELSE [panic |-> FALSE, stride |-> s]

\* double_stride leaving every stride as it is
double_stride_never(d, s, T, dbg) == [panic |-> FALSE, stride |-> s]

\* double_stride with the test `dim[ax] >= 1`
double_stride_from_extent_one(d, s, T, dbg) ==
    IF size_of(T) # 0 /\ d >= 1
    THEN LET p == AsIsize(s) * 2
         IN  [panic |-> Overflows(p) /\ dbg, stride |-> AsUsize(p)]
    ELSE [panic |-> FALSE, stride |-> s]

\* lines 172-179: one axis of the doubled strides; "panic" is the overflow
\* check of `strides[ax] as isize * 2`
double_stride(d, s, T, dbg) ==
    IF size_of(T) # 0 /\ d > 1
    THEN LET p == AsIsize(s) * 2
         IN  [panic |-> Overflows(p) /\ dbg, stride |-> AsUsize(p)]
    ELSE [panic |-> FALSE, stride |-> s]

\* split_complex_ptr_im without the `self.is_empty()` case
split_complex_ptr_im_always_adds(v, ptr_re, T) ==
    ptr_offset(ptr_re, 1, size_of(T))

\* lines 181-191
split_complex_ptr_im(v, ptr_re, T) ==
    IF is_empty(v) THEN {ptr_re} ELSE ptr_offset(ptr_re, 1, size_of(T))

\* lines 159-217
split_complex(v, dbg) ==
    LET T == Component(v.elem)
        dbl == [ax \in Axes(v) |-> double_stride(v.dim[ax], v.strides[ax], T, dbg)]
        strides == [ax \in Axes(v) |-> dbl[ax].stride]
        ptr_re == v.ptr
    IN  IF size_of(v.elem) # 2 * size_of(T) \/ 2 * size_of(T) >= USIZE
           \/ align_of(v.elem) # align_of(T)
        THEN {Panic}
        ELSE IF \E ax \in Axes(v) : dbl[ax].panic
        THEN {Panic}
        ELSE { IF ~NonNullChecked(ptr_re, dbg) \/ ~NonNullChecked(ptr_im, dbg)
               THEN Panic
               ELSE Ok(<<View(v.kind, ptr_re, v.dim, strides, T),
                         View(v.kind, ptr_im, v.dim, strides, T)>>) :
                 ptr_im \in split_complex_ptr_im(v, ptr_re, T) }

-----------------------------------------------------------------------------
(* RawArrayViewMut *)

\* the read-only view built with dim and strides in each other's place
into_raw_view_swaps_dim_strides(v) == View("RawArrayView", v.ptr, v.strides, v.dim, v.elem)

\* lines 297-301
into_raw_view(v) == View("RawArrayView", v.ptr, v.dim, v.strides, v.elem)

\* RawArrayViewMut::new over the fields of a read-only view
AsMut(v) == View("RawArrayViewMut", v.ptr, v.dim, v.strides, v.elem)

MutOutcome(o) ==
    IF o.status = "panic" THEN Panic
    ELSE Ok([k \in 1..Len(o.out) |-> AsMut(o.out[k])])

split_at_mut(v, axis, index, dbg) ==
    {MutOutcome(o) : o \in split_at(into_raw_view(v), axis, index, dbg)}

\* the size assertion replaced by a comparison of alignments
cast_mut_compares_align(v, B) ==
    IF align_of(B) # align_of(v.elem)
    THEN {Panic}
    ELSE {Ok(<<View("RawArrayViewMut", v.ptr, v.dim, v.strides, B)>>)}

cast_mut(v, B) ==
    IF size_of(B) # size_of(v.elem)
    THEN {Panic}
    ELSE {Ok(<<View("RawArrayViewMut", v.ptr, v.dim, v.strides, B)>>)}

split_complex_mut(v, dbg) ==
    {MutOutcome(o) : o \in split_complex(into_raw_view(v), dbg)}

-----------------------------------------------------------------------------
(* from_shape_ptr *)

Abs(i) == IF i < 0 THEN 0 - i ELSE i

RECURSIVE SeqSum(_)
SeqSum(s) == IF s = <<>> THEN 0 ELSE Head(s) + SeqSum(Tail(s))

\* dimension::strides_non_negative
strides_non_negative(strides) == \A k \in DOMAIN strides : AsIsize(strides[k]) >= 0

\* dimension::size_of_shape_checked: the product of the non-zero axis
\* lengths must not exceed isize::MAX
NonZeroProduct(d) == SeqProduct([k \in DOMAIN d |-> IF d[k] = 0 THEN 1 ELSE d[k]])
size_of_shape_checked(d) == NonZeroProduct(d) <= ISIZE_MAX

\* dimension::max_abs_offset_check_overflow: the largest offset reached by
\* moving along all axes, in elements and in bytes, must not exceed isize::MAX
max_abs_offset(d, strides) ==
    SeqSum([k \in DOMAIN d |->
              (IF d[k] = 0 THEN 0 ELSE d[k] - 1) * Abs(AsIsize(strides[k]))])

max_abs_offset_check_overflow(elem, d, strides) ==
    /\ max_abs_offset(d, strides) <= ISIZE_MAX
    /\ max_abs_offset(d, strides) * size_of(elem) <= ISIZE_MAX

\* Dimension::default_strides (row-major) and fortran_strides
\* (column-major); all zero when an axis is empty
default_strides(d) ==
    [k \in DOMAIN d |->
        IF \E j \in DOMAIN d : d[j] = 0 THEN 0
        ELSE SeqProduct(SubSeq(d, k + 1, Len(d))) % USIZE]

fortran_strides(d) ==
    [k \in DOMAIN d |->
        IF \E j \in DOMAIN d : d[j] = 0 THEN 0
        ELSE SeqProduct(SubSeq(d, 1, k - 1)) % USIZE]

\* Strides::strides_for_dim
strides_for_dim(sk, custom, d) ==
    IF sk = "Custom" THEN custom
    ELSE IF sk = "F" THEN fortran_strides(d)
    ELSE default_strides(d)

\* the custom-stride branch checking the element count as well
from_shape_ptr_checks_counts_elements(elem, d, sk, custom, ptr) ==
    /\ ptr # 0
    /\ IF sk = "Custom"
       THEN /\ strides_non_negative(custom)
            /\ max_abs_offset_check_overflow(elem, d, custom)
            /\ size_of_shape_checked(d)
       ELSE size_of_shape_checked(d)

\* lines 75-83: the debug-only checks
from_shape_ptr_checks(elem, d, sk, custom, ptr) ==
    /\ ptr # 0
    /\ IF sk = "Custom"
       THEN /\ strides_non_negative(custom)
            /\ max_abs_offset_check_overflow(elem, d, custom)
       ELSE size_of_shape_checked(d)

\* the null assertions skipped where the data model allows a null pointer:
\* shapes of no elements and zero-sized element types
from_shape_ptr_null_exempt(kind, elem, d, sk, custom, ptr, dbg) ==
    LET exempt == ptr = 0 /\ (size(d) = 0 \/ size_of(elem) = 0)
    IN  IF dbg /\ ~exempt /\ ~from_shape_ptr_checks(elem, d, sk, custom, ptr)
        THEN Panic
        ELSE IF dbg /\ exempt /\ ~from_shape_ptr_checks(elem, d, sk, custom, 1)
        THEN Panic
        ELSE IF ~exempt /\ ~NonNullChecked(ptr, dbg)
        THEN Panic
        ELSE Ok(<<View(kind, ptr, d, strides_for_dim(sk, custom, d), elem)>>)

from_shape_ptr(kind, elem, d, sk, custom, ptr, dbg) ==
    IF dbg /\ ~from_shape_ptr_checks(elem, d, sk, custom, ptr)
    THEN Panic
    ELSE IF ~NonNullChecked(ptr, dbg)
    THEN Panic
    ELSE Ok(<<View(kind, ptr, d, strides_for_dim(sk, custom, d), elem)>>)

-----------------------------------------------------------------------------
(* deref_into_view, deref_into_view_mut *)

is_aligned(ptr, elem) == ptr % align_of(elem) = 0

\* the alignment assertion kept in release builds
deref_into_view_always_asserts(v, dbg) ==
    IF ~is_aligned(v.ptr, v.elem)
    THEN Panic
    ELSE Ok(<<View("ArrayView", v.ptr, v.dim, v.strides, v.elem)>>)

deref_into_view(v, dbg) ==
    IF dbg /\ ~is_aligned(v.ptr, v.elem)
    THEN Panic
    ELSE Ok(<<View("ArrayView", v.ptr, v.dim, v.strides, v.elem)>>)

deref_into_view_mut(v, dbg) ==
    IF dbg /\ ~is_aligned(v.ptr, v.elem)
    THEN Panic
    ELSE Ok(<<View("ArrayViewMut", v.ptr, v.dim, v.strides, v.elem)>>)

-----------------------------------------------------------------------------
(* What a view addresses *)

MaxOf(S) == CHOOSE x \in S : \A y \in S : y <= x

\* the index tuples of a dimension: 0 <= t[k] < d[k] on every axis
IndexTuples(d) ==
    {t \in [DOMAIN d -> 0..MaxOf({0} \cup {d[k] : k \in DOMAIN d})] :
        \A k \in DOMAIN d : t[k] < d[k]}

\* the tuples met by moving along every axis from the origin, also those of
\* an empty view: 0 <= t[k] <= max(d[k], 1) - 1
AxisMoves(d) ==
    {t \in [DOMAIN d -> 0..MaxOf({0} \cup {d[k] : k \in DOMAIN d})] :
        \A k \in DOMAIN d : t[k] = 0 \/ t[k] < d[k]}

\* offset of an index tuple in elements, and the address of its element
OffsetOf(strides, t) == SeqSum([k \in DOMAIN t |-> t[k] * AsIsize(strides[k])])
AddrOf(v, t) == v.ptr + OffsetOf(v.strides, t) * size_of(v.elem)

\* an element of the view's type at address a lies in the allocation
ElementInAlloc(v, a) == AllocLo <= a /\ a + size_of(v.elem) <= AllocHi

\* The caller's obligations of from_shape_ptr (its # Safety section).  The
\* pointers met by moving along the axes of a non-empty view of sized
\* elements point at elements of "a single allocation with element type A"
\* (split_complex relies on it: "we can safely offset into the first
\* (complex) element"); for an empty view or zero-sized elements the pointer
\* may dangle but moving along the axes must still be a defined offset.
SafetyContract(v) ==
    /\ v.ptr # 0
    /\ strides_non_negative(v.strides)
    /\ size_of_shape_checked(v.dim)
    /\ max_abs_offset_check_overflow(v.elem, v.dim, v.strides)
    /\ IF is_empty(v) \/ size_of(v.elem) = 0
       THEN \A t \in AxisMoves(v.dim) :
               OffsetDefined(v.ptr, OffsetOf(v.strides, t), size_of(v.elem))
       ELSE \A t \in IndexTuples(v.dim) : ElementInAlloc(v, AddrOf(v, t))

-----------------------------------------------------------------------------
(* Inputs *)

Dims == UNION {[1..n -> 0..MaxExtent] : n \in Ranks}
StrideValues == (0..MaxStride) \cup {ISIZE_MAX \div 2, ISIZE_MAX, USIZE - 1}
CustomStrides(d) == [DOMAIN d -> StrideValues]
PtrInputs == {0, 1, AllocLo}
\* arguments of split_at: every axis and index in range, and the first out
\* of range
AxisInputs(v) == 0..Len(v.dim)
IndexInputs(v, axis) == IF AxisExists(v, axis) THEN 0..(len_of(v, axis) + 1) ELSE 0..1

-----------------------------------------------------------------------------
(* The state machine: one live raw view `cur`, and `last`, the record of   *)
(* the last call: its receiver, arguments and outcome.                     *)

Call(op, src, axis, index, ty, sk, o) ==
    [op |-> op, src |-> src, axis |-> axis, index |-> index, ty |-> ty,
     sk |-> sk, status |-> o.status, out |-> o.out]

Running == last.status = "ok"

Init ==
    /\ debug \in BOOLEAN
    /\ cur = NoView
    /\ last = Call("start", NoView, 0, 0, Scalar(0), "-", Ok(<<>>))

\* a run of the program constructs its view once, from the caller's inputs
Construct(kind) ==
    /\ last.op = "start"
    /\ \E elem \in ElemTypes, d \in Dims, sk \in {"C", "F", "Custom"}, ptr \in PtrInputs :
         \E custom \in (IF sk = "Custom" THEN CustomStrides(d) ELSE {<<>>}) :
           LET o == from_shape_ptr(kind, elem, d, sk, custom, ptr, debug)
           IN  /\ SafetyContract(View(kind, ptr, d, strides_for_dim(sk, custom, d), elem))
               /\ last' = Call("from_shape_ptr", View(kind, ptr, d, custom, elem),
                               0, 0, elem, sk, o)
               /\ cur' = IF o.status = "ok" THEN o.out[1] ELSE NoView
    /\ UNCHANGED debug

FromShapePtr == Construct("RawArrayView")

FromShapePtrMut == Construct("RawArrayViewMut")

\* a call on the live view: any of its outcomes, then the caller keeps one
\* of the returned views
Step(op, axis, index, ty, outcomes) ==
    \E o \in outcomes :
       /\ last' = Call(op, cur, axis, index, ty, "-", o)
       /\ cur' \in (IF o.status = "ok" THEN {o.out[k] : k \in 1..Len(o.out)}
                    ELSE {NoView})
       /\ UNCHANGED debug

SplitAt ==
    /\ Running /\ cur.kind = "RawArrayView"
    /\ \E axis \in AxisInputs(cur) : \E index \in IndexInputs(cur, axis) :
         Step("split_at", axis, index, cur.elem, split_at(cur, axis, index, debug))

SplitAtMut ==
    /\ Running /\ cur.kind = "RawArrayViewMut"
    /\ \E axis \in AxisInputs(cur) : \E index \in IndexInputs(cur, axis) :
         Step("split_at", axis, index, cur.elem, split_at_mut(cur, axis, index, debug))

Cast ==
    /\ Running /\ cur.kind = "RawArrayView"
    /\ \E B \in ElemTypes : Step("cast", 0, 0, B, cast(cur, B))

CastMut ==
    /\ Running /\ cur.kind = "RawArrayViewMut"
    /\ \E B \in ElemTypes : Step("cast", 0, 0, B, cast_mut(cur, B))

SplitComplex ==
    /\ Running /\ cur.kind = "RawArrayView" /\ cur.elem.complex
    /\ Step("split_complex", 0, 0, cur.elem, split_complex(cur, debug))

SplitComplexMut ==
    /\ Running /\ cur.kind = "RawArrayViewMut" /\ cur.elem.complex
    /\ Step("split_complex", 0, 0, cur.elem, split_complex_mut(cur, debug))

IntoRawView ==
    /\ Running /\ cur.kind = "RawArrayViewMut"
    /\ Step("into_raw_view", 0, 0, cur.elem, {Ok(<<into_raw_view(cur)>>)})

\* promotion consumes the raw view
Promote(op, o) ==
    /\ last' = Call(op, cur, 0, 0, cur.elem, "-", o)
    /\ cur' = NoView
    /\ UNCHANGED debug

DerefIntoView ==
    /\ Running /\ cur.kind \in {"RawArrayView", "RawArrayViewMut"}
    /\ Promote("deref_into_view", deref_into_view(cur, debug))

DerefIntoViewMut ==
    /\ Running /\ cur.kind = "RawArrayViewMut"
    /\ Promote("deref_into_view_mut", deref_into_view_mut(cur, debug))

Next ==
    \/ FromShapePtr
    \/ FromShapePtrMut
    \/ SplitAt
    \/ SplitAtMut
    \/ Cast
    \/ CastMut
    \/ SplitComplex
    \/ SplitComplexMut
    \/ IntoRawView
    \/ DerefIntoView
    \/ DerefIntoViewMut

Spec == Init /\ [][Next]_vars

-----------------------------------------------------------------------------
(* The constructors on any input: the caller's contract is not assumed, so *)
(* null pointers, negative strides and shapes and offsets past isize::MAX  *)
(* reach the debug checks.                                                 *)

AnyExtents == (0..MaxExtent) \cup {ISIZE_MAX}
AnyDims == UNION {[1..n -> AnyExtents] : n \in Ranks}

ConstructAny(kind) ==
    /\ last.op = "start"
    /\ \E elem \in ElemTypes, d \in AnyDims, sk \in {"C", "F", "Custom"}, ptr \in PtrInputs :
         \E custom \in (IF sk = "Custom" THEN CustomStrides(d) ELSE {<<>>}) :
           LET o == from_shape_ptr(kind, elem, d, sk, custom, ptr, debug)
           IN  /\ last' = Call("from_shape_ptr", View(kind, ptr, d, custom, elem),
                               0, 0, elem, sk, o)
               /\ cur' = IF o.status = "ok" THEN o.out[1] ELSE NoView
    /\ UNCHANGED debug

FromShapePtrAny == ConstructAny("RawArrayView")

FromShapePtrMutAny == ConstructAny("RawArrayViewMut")

NextAny ==
    \/ FromShapePtrAny
    \/ FromShapePtrMutAny

SpecAny == Init /\ [][NextAny]_vars

-----------------------------------------------------------------------------
(* The invariants of the data model, on one view *)

\* 1. the base pointer is non-null, except when the view addresses zero
\*    elements or elements of zero size
InvNonNull(v) == v.ptr # 0 \/ IndexTuples(v.dim) = {} \/ size_of(v.elem) = 0

\* 2. every reachable index tuple's element lies inside the allocation
InvInAllocation(v) ==
    \A t \in IndexTuples(v.dim) :
       \/ size_of(v.elem) = 0
       \/ ElementInAlloc(v, AddrOf(v, t))

\* 3. the largest offset any index tuple reaches stays within isize::MAX, in
\*    elements and in bytes
InvMaxOffset(v) ==
    \A t \in IndexTuples(v.dim) :
       /\ Abs(OffsetOf(v.strides, t)) <= ISIZE_MAX
       /\ Abs(OffsetOf(v.strides, t)) * size_of(v.elem) <= ISIZE_MAX

\* 4. the product of the non-zero extents stays within isize::MAX
InvShapeSize(v) == NonZeroProduct(v.dim) <= ISIZE_MAX

DataModelInv(v) ==
    InvNonNull(v) /\ InvInAllocation(v) /\ InvMaxOffset(v) /\ InvShapeSize(v)

-----------------------------------------------------------------------------
(* split_at on every view of the data model: the views constructed are the *)
(* ones that satisfy its four invariants with non-negative strides, and    *)
(* need not meet the constructor's safety contract. Each is split once.    *)

\* base pointers: null, dangling, and the start and the last byte of the
\* allocation
EdgePtrInputs == PtrInputs \cup {AllocHi - 1}

ConstructInv(kind) ==
    /\ last.op = "start"
    /\ \E elem \in ElemTypes, d \in Dims, sk \in {"C", "F", "Custom"}, ptr \in EdgePtrInputs :
         \E custom \in (IF sk = "Custom" THEN CustomStrides(d) ELSE {<<>>}) :
           LET o == from_shape_ptr(kind, elem, d, sk, custom, ptr, debug)
               v == View(kind, ptr, d, strides_for_dim(sk, custom, d), elem)
           IN  /\ DataModelInv(v)
               /\ strides_non_negative(v.strides)
               /\ last' = Call("from_shape_ptr", View(kind, ptr, d, custom, elem),
                               0, 0, elem, sk, o)
               /\ cur' = IF o.status = "ok" THEN o.out[1] ELSE NoView
    /\ UNCHANGED debug

FromShapePtrInv == ConstructInv("RawArrayView")

FromShapePtrMutInv == ConstructInv("RawArrayViewMut")

SplitAtConstructed == last.op = "from_shape_ptr" /\ SplitAt

SplitAtMutConstructed == last.op = "from_shape_ptr" /\ SplitAtMut

NextInv ==
    \/ FromShapePtrInv
    \/ FromShapePtrMutInv
    \/ SplitAtConstructed
    \/ SplitAtMutConstructed

SpecInv == Init /\ [][NextInv]_vars

-----------------------------------------------------------------------------
(* The last call, by operation *)

SplitAtCalled == last.op = "split_at"
SplitAtReturned == last.op = "split_at" /\ last.status = "ok"
SplitAtLegal ==
    /\ last.op = "split_at"
    /\ AxisExists(last.src, last.axis)
    /\ last.index <= len_of(last.src, last.axis)

\* the index tuple of the source that a tuple of the right half stands for
ShiftAlong(t, axis, by) == [t EXCEPT ![axis + 1] = @ + by]

\* Every view a call is made on meets the constructor's safety contract
ReceiverMeetsContract == last.src.kind # "None" /\ last.op # "from_shape_ptr"
                            => SafetyContract(last.src)

-----------------------------------------------------------------------------
\* C1: a legal split_at(a, index) returns (left, right) with
\* left.dim[a] = index, right.dim[a] = V.dim[a] - index, every other extent
\* and every stride of both halves equal to V's, and left.ptr = V.ptr.
C1_SplitShape ==
    SplitAtLegal =>
       /\ last.status = "ok"
       /\ Len(last.out) = 2
       /\ LET V == last.src
              a == last.axis + 1
              left == last.out[1]
              right == last.out[2]
          IN  /\ left.dim[a] = last.index
              /\ right.dim[a] = V.dim[a] - last.index
              /\ DOMAIN left.dim = DOMAIN V.dim /\ DOMAIN right.dim = DOMAIN V.dim
              /\ \A k \in DOMAIN V.dim :
                    k # a => left.dim[k] = V.dim[k] /\ right.dim[k] = V.dim[k]
              /\ left.strides = V.strides
              /\ right.strides = V.strides
              /\ left.ptr = V.ptr

\* a split strictly inside an axis of a two-axis view
C1_Witness ==
    /\ SplitAtReturned
    /\ Len(last.src.dim) = 2
    /\ 0 < last.index /\ last.index < len_of(last.src, last.axis)
    /\ last.out[1].dim # last.src.dim
    /\ last.out[1].strides[1] # last.out[1].strides[2]

\* C2: split pointer law: right.ptr = V.ptr + index * V.strides[a] elements
\* when index < V.dim[a], and right.ptr = V.ptr when index = V.dim[a].
C2_SplitPointer ==
    SplitAtLegal =>
       /\ last.status = "ok"
       /\ LET V == last.src
              a == last.axis + 1
              right == last.out[2]
          IN  IF last.index < V.dim[a]
              THEN right.ptr = V.ptr + last.index * AsIsize(V.strides[a]) * size_of(V.elem)
              ELSE right.ptr = V.ptr

\* the second row of a 2 x n view of sized elements: the pointer moved
C2_Witness ==
    /\ SplitAtReturned
    /\ last.index > 0 /\ last.index < len_of(last.src, last.axis)
    /\ size_of(last.src.elem) > 1
    /\ last.src.strides[last.axis + 1] > 1
    /\ last.out[2].ptr > last.src.ptr

\* the full-length split of a non-empty view of sized elements: the pointer
\* is reused
C2_WitnessEnd ==
    /\ SplitAtReturned
    /\ last.index = len_of(last.src, last.axis)
    /\ last.index > 0
    /\ ~is_empty(last.src)
    /\ size_of(last.src.elem) > 0 /\ last.src.strides[last.axis + 1] > 0
    /\ last.out[2].ptr = last.src.ptr

\* C3: split_at panics and returns no view when index > dim[axis] or the
\* axis does not exist, in every build mode, for both raw view kinds.
C3_SplitPanics ==
    (SplitAtCalled /\ ~SplitAtLegal) => last.status = "panic" /\ last.out = <<>>

\* without debug assertions, on the mutable view, the index is too large
C3_Witness ==
    /\ SplitAtCalled
    /\ ~debug
    /\ last.src.kind = "RawArrayViewMut"
    /\ AxisExists(last.src, last.axis)
    /\ last.index > len_of(last.src, last.axis)
    /\ last.status = "panic"

\* C4: split identity: the tuples of the left half and the shifted tuples of
\* the right half partition V's tuples, each at V's address; index = 0 gives
\* (empty along a, V), index = dim[a] gives (V, empty along a).
C4_SplitIdentity ==
    SplitAtLegal =>
       /\ last.status = "ok"
       /\ LET V == last.src
              a == last.axis + 1
              left == last.out[1]
              right == last.out[2]
              L == IndexTuples(left.dim)
              R == {ShiftAlong(t, last.axis, last.index) : t \in IndexTuples(right.dim)}
          IN  /\ L \cup R = IndexTuples(V.dim)
              /\ L \cap R = {}
              /\ Cardinality(R) = Cardinality(IndexTuples(right.dim))
              /\ \A t \in IndexTuples(left.dim) : AddrOf(left, t) = AddrOf(V, t)
              /\ \A t \in IndexTuples(right.dim) :
                    AddrOf(right, t) = AddrOf(V, ShiftAlong(t, last.axis, last.index))
              /\ last.index = 0 => left.dim[a] = 0 /\ right = V
              /\ last.index = V.dim[a] => left = V /\ right.dim[a] = 0

\* both halves of a split hold elements
C4_Witness ==
    /\ SplitAtReturned
    /\ IndexTuples(last.out[1].dim) # {}
    /\ IndexTuples(last.out[2].dim) # {}
    /\ Len(last.src.dim) = 2
    /\ size_of(last.src.elem) > 0

\* C5: split_at preserves the data-model invariants 1-4: when they hold of
\* the source they hold of both halves, and so along every chain of splits.
C5_SplitPreservesInv ==
    (SplitAtReturned /\ DataModelInv(last.src)) =>
        DataModelInv(last.out[1]) /\ DataModelInv(last.out[2])

\* a split of a view that is itself the half of an earlier split, both
\* halves holding elements
C5_Witness ==
    /\ SplitAtReturned
    /\ DataModelInv(last.src)
    /\ size_of(last.src.elem) > 0
    /\ last.src.ptr > AllocLo
    /\ IndexTuples(last.out[1].dim) # {}
    /\ IndexTuples(last.out[2].dim) # {}

-----------------------------------------------------------------------------
SplitComplexReturned == last.op = "split_complex" /\ last.status = "ok"

\* a view is empty when some axis has extent 0
SomeAxisEmpty(v) == \E k \in DOMAIN v.dim : v.dim[k] = 0

\* C6: complex decomposition pointer law: re.ptr = V.ptr; im.ptr is
\* re.ptr + 1 component when no axis of V has extent 0, and re.ptr when some
\* axis has.
C6_ComplexPointer ==
    last.op = "split_complex" =>
       /\ last.status = "ok"
       /\ LET V == last.src
              re == last.out[1]
              im == last.out[2]
          IN  /\ re.ptr = V.ptr
              /\ re.elem = Component(V.elem) /\ im.elem = Component(V.elem)
              /\ IF SomeAxisEmpty(V)
                 THEN im.ptr = re.ptr
                 ELSE im.ptr = re.ptr + 1 * size_of(re.elem)

\* a non-empty view of pairs of sized components
C6_Witness ==
    /\ SplitComplexReturned
    /\ ~SomeAxisEmpty(last.src)
    /\ size_of(last.out[1].elem) > 0
    /\ last.out[2].ptr # last.out[1].ptr

\* an empty view (dimension [0, n]) of pairs of sized components
C6_WitnessEmpty ==
    /\ SplitComplexReturned
    /\ SomeAxisEmpty(last.src)
    /\ Len(last.src.dim) = 2
    /\ size_of(last.out[1].elem) > 0
    /\ last.out[2].ptr = last.out[1].ptr

\* C7 as stated: on every view of pairs, every axis of extent > 1 has its
\* stride doubled and every axis of extent <= 1 keeps its stride, in both
\* components, which carry the original dimension.
C7_StrideLawEveryType ==
    SplitComplexReturned =>
       LET V == last.src
       IN  \A c \in 1..2 :
              /\ last.out[c].dim = V.dim
              /\ last.out[c].strides = last.out[1].strides
              /\ \A k \in DOMAIN V.dim :
                    AsIsize(last.out[c].strides[k]) =
                       IF V.dim[k] > 1 THEN 2 * AsIsize(V.strides[k])
                       ELSE AsIsize(V.strides[k])

\* C7, amended: the stride law holds on every view of pairs whose component
\* type has non-zero size.
C7_StrideLaw ==
    (SplitComplexReturned /\ size_of(Component(last.src.elem)) # 0) =>
       LET V == last.src
       IN  \A c \in 1..2 :
              /\ last.out[c].dim = V.dim
              /\ last.out[c].strides = last.out[1].strides
              /\ \A k \in DOMAIN V.dim :
                    AsIsize(last.out[c].strides[k]) =
                       IF V.dim[k] > 1 THEN 2 * AsIsize(V.strides[k])
                       ELSE AsIsize(V.strides[k])

\* sized components, one axis of extent > 1 with a non-zero stride and one
\* axis of extent <= 1 with a non-zero stride
C7_Witness ==
    /\ SplitComplexReturned
    /\ size_of(Component(last.src.elem)) # 0
    /\ \E k \in DOMAIN last.src.dim :
          last.src.dim[k] > 1 /\ last.src.strides[k] > 0
            /\ last.out[2].strides[k] = 2 * last.src.strides[k]
    /\ \E k \in DOMAIN last.src.dim :
          last.src.dim[k] <= 1 /\ last.src.strides[k] > 0
            /\ last.out[2].strides[k] = last.src.strides[k]

\* C8: on a non-empty view of pairs of sized components, the real view
\* addresses every index tuple where V does, the imaginary view size_of(T)
\* bytes further, over V's index set.
C8_ComplexAddresses ==
    (last.op = "split_complex" /\ ~SomeAxisEmpty(last.src)
        /\ size_of(Component(last.src.elem)) # 0) =>
       /\ last.status = "ok"
       /\ LET V == last.src
              re == last.out[1]
              im == last.out[2]
              T == Component(V.elem)
          IN  /\ IndexTuples(re.dim) = IndexTuples(V.dim)
              /\ IndexTuples(im.dim) = IndexTuples(V.dim)
              /\ \A t \in IndexTuples(V.dim) :
                    /\ AddrOf(re, t) = AddrOf(V, t)
                    /\ AddrOf(im, t) = AddrOf(V, t) + size_of(T)

\* a 2 x 2 view of pairs whose components take more than one byte
C8_Witness ==
    /\ SplitComplexReturned
    /\ size_of(Component(last.src.elem)) > 1
    /\ Cardinality(IndexTuples(last.src.dim)) > 2
    /\ \E t \in IndexTuples(last.src.dim) : AddrOf(last.out[2], t) > last.src.ptr + 2

\* C9: with a zero-sized component type split_complex leaves every stride
\* as it is, whatever the extent, in both components.
C9_ZeroSizedStrides ==
    (last.op = "split_complex" /\ size_of(Component(last.src.elem)) = 0) =>
       /\ last.status = "ok"
       /\ last.out[1].strides = last.src.strides
       /\ last.out[2].strides = last.src.strides

\* zero-sized components, an axis of extent > 1 with a non-zero stride
C9_Witness ==
    /\ SplitComplexReturned
    /\ size_of(Component(last.src.elem)) = 0
    /\ \E k \in DOMAIN last.src.dim : last.src.dim[k] > 1 /\ last.src.strides[k] > 0

\* C10: cast to a type of the same size succeeds and keeps the address of
\* the base pointer, the dimension and the strides, on both raw view kinds.
C10_CastPreserves ==
    (last.op = "cast" /\ size_of(last.ty) = size_of(last.src.elem)) =>
       /\ last.status = "ok"
       /\ Len(last.out) = 1
       /\ last.out[1].ptr = last.src.ptr
       /\ last.out[1].dim = last.src.dim
       /\ last.out[1].strides = last.src.strides
       /\ last.out[1].elem = last.ty
       /\ last.out[1].kind = last.src.kind

\* a mutable view of sized elements cast to another type of that size, its
\* dimension and strides differing
C10_Witness ==
    /\ last.op = "cast" /\ last.status = "ok"
    /\ last.src.kind = "RawArrayViewMut"
    /\ last.ty # last.src.elem
    /\ size_of(last.ty) > 0
    /\ last.src.dim # last.src.strides

\* the same on the read-only view
C10_WitnessRaw ==
    /\ last.op = "cast" /\ last.status = "ok"
    /\ last.src.kind = "RawArrayView"
    /\ last.ty # last.src.elem
    /\ size_of(last.ty) > 0

-----------------------------------------------------------------------------
(* Claims on cast, construction and promotion *)

\* C11: a cast to a type of another size fails with the size assertion and
\* produces no view, on both raw view kinds and in debug and release builds
\* alike.
C11_CastSizeCheck ==
    (last.op = "cast" /\ size_of(last.ty) # size_of(last.src.elem)) =>
       /\ last.status = "panic"
       /\ last.out = <<>>

\* a release build refuses to cast a mutable view to a type of another size
\* and the same alignment
C11_Witness ==
    /\ last.op = "cast" /\ last.status = "panic"
    /\ ~debug
    /\ last.src.kind = "RawArrayViewMut"
    /\ size_of(last.ty) # size_of(last.src.elem)
    /\ align_of(last.ty) = align_of(last.src.elem)

\* the same on the read-only view in a debug build
C11_WitnessRaw ==
    /\ last.op = "cast" /\ last.status = "panic"
    /\ debug
    /\ last.src.kind = "RawArrayView"
    /\ size_of(last.ty) # size_of(last.src.elem)

C12_WitnessNegative ==
    /\ last.op = "from_shape_ptr" /\ last.status = "panic"
    /\ debug /\ last.sk = "Custom" /\ last.src.ptr # 0
    /\ \E k \in DOMAIN last.src.strides : last.src.strides[k] = USIZE - 1

\* a debug build refuses custom strides whose offset fits in elements and
\* not in bytes
C12_WitnessBytes ==
    /\ last.op = "from_shape_ptr" /\ last.status = "panic"
    /\ debug /\ last.sk = "Custom" /\ last.src.ptr # 0
    /\ strides_non_negative(last.src.strides)
    /\ max_abs_offset(last.src.dim, last.src.strides) <= ISIZE_MAX

\* a debug build refuses default strides over a shape of more than
\* isize::MAX elements
C12_WitnessCount ==
    /\ last.op = "from_shape_ptr" /\ last.status = "panic"
    /\ debug /\ last.sk = "C" /\ last.src.ptr # 0

\* a release build returns a view with a negative stride and an offset past
\* isize::MAX
C12_WitnessRelease ==
    /\ last.op = "from_shape_ptr" /\ last.status = "ok"
    /\ ~debug /\ last.sk = "Custom"
    /\ ~strides_non_negative(last.src.strides)
    /\ max_abs_offset(last.src.dim, last.src.strides) > ISIZE_MAX

\* C13: in a debug build a null pointer fails from_shape_ptr for every
\* shape, stride kind and element type, shapes of no elements and
\* zero-sized element types included.
C13_NullPointer ==
    (last.op = "from_shape_ptr" /\ debug /\ last.src.ptr = 0) =>
       /\ last.status = "panic"
       /\ last.out = <<>>
       /\ cur = NoView

\* a null pointer refused for an empty shape of a zero-sized type whose
\* strides pass every other check
C13_Witness ==
    /\ last.op = "from_shape_ptr" /\ last.status = "panic"
    /\ debug /\ last.src.ptr = 0
    /\ size(last.src.dim) = 0
    /\ size_of(last.src.elem) = 0
    /\ from_shape_ptr_checks(last.src.elem, last.src.dim, last.sk, last.src.strides, 1)

\* and for a shape with elements of a sized type
C13_WitnessSized ==
    /\ last.op = "from_shape_ptr" /\ last.status = "panic"
    /\ debug /\ last.src.ptr = 0
    /\ size(last.src.dim) > 0
    /\ size_of(last.src.elem) > 0
    /\ from_shape_ptr_checks(last.src.elem, last.src.dim, last.sk, last.src.strides, 1)

\* C14: promotion of a raw view fails exactly when the build is a debug
\* build and the base pointer is not a multiple of the element type's
\* alignment; otherwise it returns the checked view (read-only from
\* deref_into_view, mutable from deref_into_view_mut) of the same base
\* pointer, dimension, strides and element type.
C14_Promotion ==
    last.op \in {"deref_into_view", "deref_into_view_mut"} =>
       /\ last.status = "panic" <=> (debug /\ last.src.ptr % align_of(last.src.elem) # 0)
       /\ last.status = "ok" =>
            /\ Len(last.out) = 1
            /\ last.out[1].ptr = last.src.ptr
            /\ last.out[1].dim = last.src.dim
            /\ last.out[1].strides = last.src.strides
            /\ last.out[1].elem = last.src.elem
            /\ last.out[1].kind =
                  (IF last.op = "deref_into_view" THEN "ArrayView" ELSE "ArrayViewMut")

\* a release build promotes a view whose base pointer is misaligned
C14_Witness ==
    /\ last.op = "deref_into_view" /\ last.status = "ok"
    /\ ~debug
    /\ last.src.ptr % align_of(last.src.elem) # 0

\* a debug build refuses it, on the mutable promotion
C14_WitnessDebug ==
    /\ last.op = "deref_into_view_mut" /\ last.status = "panic"
    /\ debug
    /\ last.src.ptr % align_of(last.src.elem) # 0

\* a debug build promotes an aligned mutable view of several elements to a
\* read-only checked view
C14_WitnessAligned ==
    /\ last.op = "deref_into_view" /\ last.status = "ok"
    /\ debug
    /\ last.src.kind = "RawArrayViewMut"
    /\ size(last.src.dim) > 1
    /\ align_of(last.src.elem) > 1
    /\ last.src.dim # last.src.strides

-----------------------------------------------------------------------------
(* Claims on where split_at points, on strides, and between operations *)

\* the addresses of the elements a view reaches by its index tuples
Reached(v) == {AddrOf(v, t) : t \in IndexTuples(v.dim)}

\* an address within, or one element past, the addresses a view reaches
WithinOrOnePast(v, p) ==
    \E a \in Reached(v) : p = a \/ p = a + size_of(v.elem)

\* a legal split_at on a view that satisfies the data model with
\* non-negative strides
SplitAtOnDataModel ==
    /\ SplitAtLegal
    /\ DataModelInv(last.src)
    /\ strides_non_negative(last.src.strides)

\* C15 as stated: on every view that satisfies the data model with
\* non-negative strides, views with an empty axis included, a legal split_at
\* returns a right half whose base pointer is V.ptr or lies within, or one
\* element past, the addresses V reaches by its index tuples.
C15_RightPointerEveryView ==
    SplitAtOnDataModel =>
       /\ last.status = "ok"
       /\ \/ last.out[2].ptr = last.src.ptr
          \/ WithinOrOnePast(last.src, last.out[2].ptr)

\* C15, amended: the same for a view that addresses at least one element.
\* For a view that addresses none and meets the constructor's safety
\* contract, the right pointer is V.ptr or an address reached by moving
\* along the axes as the contract requires to be possible.
C15_RightPointer ==
    SplitAtOnDataModel =>
       /\ IndexTuples(last.src.dim) # {} =>
            /\ last.status = "ok"
            /\ \/ last.out[2].ptr = last.src.ptr
               \/ WithinOrOnePast(last.src, last.out[2].ptr)
       /\ (IndexTuples(last.src.dim) = {} /\ SafetyContract(last.src)) =>
            /\ last.status = "ok"
            /\ last.out[2].ptr \in {AddrOf(last.src, t) : t \in AxisMoves(last.src.dim)}

\* a view of several sized elements split inside the axis, the right
\* pointer past the base pointer
C15_Witness ==
    /\ SplitAtOnDataModel /\ last.status = "ok"
    /\ IndexTuples(last.src.dim) # {}
    /\ last.index > 0 /\ last.index < len_of(last.src, last.axis)
    /\ last.out[2].ptr > last.src.ptr

\* a view with an empty axis, meeting the contract, split inside another
\* axis: the right pointer moves although the view reaches no address
C15_WitnessEmpty ==
    /\ SplitAtOnDataModel /\ last.status = "ok"
    /\ IndexTuples(last.src.dim) = {} /\ SafetyContract(last.src)
    /\ last.out[2].ptr # last.src.ptr

\* the largest offset in elements reached by moving along all axes
MaxReach(d, strides) == MaxOf({Abs(OffsetOf(strides, t)) : t \in AxisMoves(d)})

C17_WitnessLargest ==
    /\ last.op = "split_complex" /\ last.status = "ok"
    /\ size_of(Component(last.src.elem)) > 0
    /\ \E k \in DOMAIN last.src.dim :
          /\ last.src.dim[k] > 1
          /\ last.src.strides[k] = ISIZE_MAX \div 2
          /\ last.out[1].strides[k] = ISIZE_MAX - 1

\* the outcome recorded for the last call agrees with outcome o: both
\* panicked, or both returned as many views with equal base pointers,
\* dimensions, strides and element types
SameDescriptors(o) ==
    /\ o.status = last.status
    /\ Len(o.out) = Len(last.out)
    /\ \A i \in 1..Len(o.out) :
         /\ o.out[i].ptr = last.out[i].ptr
         /\ o.out[i].dim = last.out[i].dim
         /\ o.out[i].strides = last.out[i].strides
         /\ o.out[i].elem = last.out[i].elem

\* the read-only view of the descriptor the last call was made on
ReadOnlySrc == [last.src EXCEPT !.kind = "RawArrayView"]

\* C18: split_at, cast and split_complex on a mutable raw view end as the
\* read-only operation of that name ends on the same descriptor and
\* arguments: a panic for a panic, and otherwise mutable views of the same
\* base pointers, dimensions and strides; into_raw_view returns the
\* read-only view of the same base pointer, dimension and strides.
C18_MutEquivalent ==
    last.src.kind = "RawArrayViewMut" =>
       /\ last.op = "split_at" =>
            /\ \E o \in split_at(ReadOnlySrc, last.axis, last.index, debug) : SameDescriptors(o)
            /\ \A i \in 1..Len(last.out) : last.out[i].kind = "RawArrayViewMut"
       /\ last.op = "cast" =>
            /\ \E o \in cast(ReadOnlySrc, last.ty) : SameDescriptors(o)
            /\ \A i \in 1..Len(last.out) : last.out[i].kind = "RawArrayViewMut"
       /\ last.op = "split_complex" =>
            /\ \E o \in split_complex(ReadOnlySrc, debug) : SameDescriptors(o)
            /\ \A i \in 1..Len(last.out) : last.out[i].kind = "RawArrayViewMut"
       /\ last.op = "into_raw_view" =>
            /\ last.status = "ok" /\ Len(last.out) = 1
            /\ last.out[1].kind = "RawArrayView"
            /\ last.out[1].ptr = last.src.ptr
            /\ last.out[1].dim = last.src.dim
            /\ last.out[1].strides = last.src.strides
            /\ last.out[1].elem = last.src.elem

\* a mutable view split inside an axis, its dimension and strides differing
C18_Witness ==
    /\ last.op = "split_at" /\ last.status = "ok"
    /\ last.src.kind = "RawArrayViewMut"
    /\ last.index > 0 /\ last.out[2].ptr # last.src.ptr
    /\ last.src.dim # last.src.strides

\* a mutable view refusing a split past the axis
C18_WitnessPanic ==
    /\ last.op = "split_at" /\ last.status = "panic"
    /\ last.src.kind = "RawArrayViewMut"

\* a mutable view of sized pairs decomposed, with a doubled stride
C18_WitnessComplex ==
    /\ last.op = "split_complex" /\ last.status = "ok"
    /\ last.src.kind = "RawArrayViewMut"
    /\ last.out[1].strides # last.src.strides
    /\ last.out[2].ptr # last.src.ptr

\* a mutable view cast, and one refused
C18_WitnessCast ==
    /\ last.op = "cast" /\ last.status = "ok"
    /\ last.src.kind = "RawArrayViewMut"
    /\ last.ty # last.src.elem /\ last.src.dim # last.src.strides

C18_WitnessCastPanic ==
    /\ last.op = "cast" /\ last.status = "panic"
    /\ last.src.kind = "RawArrayViewMut"

\* a mutable view of several elements turned into the read-only view
C18_WitnessIntoRaw ==
    /\ last.op = "into_raw_view"
    /\ size(last.src.dim) > 1
    /\ last.src.dim # last.src.strides

\* split_complex and split_at as the kind of the view has them
SplitComplexOf(v) ==
    IF v.kind = "RawArrayViewMut" THEN split_complex_mut(v, debug)
    ELSE split_complex(v, debug)

SplitAtOf(v, axis, index) ==
    IF v.kind = "RawArrayViewMut" THEN split_at_mut(v, axis, index, debug)
    ELSE split_at(v, axis, index, debug)

\* two views of the same dimension and element type that put every index
\* tuple at the same address
SameAddressing(x, y) ==
    /\ x.dim = y.dim
    /\ x.elem = y.elem
    /\ \A t \in IndexTuples(x.dim) : AddrOf(x, t) = AddrOf(y, t)

\* a legal split_at on a view of pairs of a sized component type
SplitAtOfPairs ==
    /\ SplitAtLegal
    /\ last.src.elem.complex
    /\ size_of(Component(last.src.elem)) # 0

\* C19: after a legal split_at(a, index) of a view V of pairs of a sized
\* component type, split_complex of the left and of the right half returns
\* four views that have the dimensions of, and put every index tuple at
\* the address of, the four views returned by split_at(a, index) of the
\* real and of the imaginary view of split_complex of V; no call on either
\* path panics.
C19_SplitsCommute ==
    SplitAtOfPairs =>
       /\ last.status = "ok"
       /\ \A cl \in SplitComplexOf(last.out[1]), cr \in SplitComplexOf(last.out[2]),
             cV \in SplitComplexOf(last.src) :
            /\ cl.status = "ok" /\ cr.status = "ok" /\ cV.status = "ok"
            /\ \A sre \in SplitAtOf(cV.out[1], last.axis, last.index),
                  sim \in SplitAtOf(cV.out[2], last.axis, last.index) :
                 /\ sre.status = "ok" /\ sim.status = "ok"
                 /\ SameAddressing(cl.out[1], sre.out[1])
                 /\ SameAddressing(cl.out[2], sim.out[1])
                 /\ SameAddressing(cr.out[1], sre.out[2])
                 /\ SameAddressing(cr.out[2], sim.out[2])

\* a view of pairs split inside an axis of two: both halves have elements,
\* the right half is addressed past the base pointer, and the left half
\* keeps on that axis the stride that the other order doubles
C19_Witness ==
    /\ SplitAtOfPairs /\ last.status = "ok"
    /\ ~SomeAxisEmpty(last.out[1]) /\ ~SomeAxisEmpty(last.out[2])
    /\ last.out[2].ptr > last.src.ptr
    /\ \E cl \in SplitComplexOf(last.out[1]), cV \in SplitComplexOf(last.src) :
          /\ cl.status = "ok" /\ cV.status = "ok"
          /\ \E sre \in SplitAtOf(cV.out[1], last.axis, last.index) :
                /\ sre.status = "ok"
                /\ cl.out[1].strides # sre.out[1].strides
                /\ cl.out[2].ptr = sre.out[1].ptr + size_of(Component(last.src.elem))

\* a split at index 0 of a view with elements: the imaginary view of the
\* empty left half has another base pointer than the left half of the
\* imaginary view
C19_WitnessEmptyHalf ==
    /\ SplitAtOfPairs /\ last.status = "ok"
    /\ last.index = 0 /\ ~SomeAxisEmpty(last.src)
    /\ \E cl \in SplitComplexOf(last.out[1]), cV \in SplitComplexOf(last.src) :
          /\ cl.status = "ok" /\ cV.status = "ok"
          /\ \E sim \in SplitAtOf(cV.out[2], last.axis, last.index) :
                sim.status = "ok" /\ cl.out[2].ptr # sim.out[1].ptr

====
